---- MODULE Spec2Model ----
(***************************************************************************)
(* The competitive-programming harness of solver/core.py, solver/cp.py,    *)
(* kattis/platform.py and euler/platform.py as a state machine.            *)
(*                                                                         *)
(* One behaviour is one command line: main() dispatches one command (new,  *)
(* run, test or submit), the command runs the Solution through Runner.run  *)
(* (once, or once per selected case), scaffolds files or talks to the      *)
(* judge, and the process exits with a status.  `new` may then be run once *)
(* more in the directory it left.  The test command of the older script    *)
(* kattis/kattis.py is modelled next to it.                                *)
(*                                                                         *)
(* Text is a sequence of one-character strings.  An optional dict entry    *)
(* (name, answer) is a sequence of length 0 (key absent) or 1 (the value). *)
(* The Solution is opaque code: what it writes, whether it reassigns the   *)
(* ambient streams and how it ends are chosen nondeterministically, which  *)
(* covers every Solution and every stdin content.                          *)
(***************************************************************************)
EXTENDS Integers, Sequences, FiniteSets, TLC

\* ------------------------------------------------------------------ bounds
\* Longest text (expected answer, Solution output) that is enumerated.
MaxLen == 2
\* Longest `cases` list that is enumerated.
MaxCases == 2
\* Longest sample fixture text that is enumerated.
MaxFix == 3
\* How many times the user runs `new` for one problem.
MaxRuns == 2

\* ------------------------------------------------------------------ text
NL == "\n"
Chars == {"a", " ", NL}

RECURSIVE TextsUpTo(_)
TextsUpTo(n) ==
    IF n = 0 THEN {<<>>}
    ELSE LET shorter == TextsUpTo(n - 1)
         IN  shorter \cup {Append(t, c) : t \in {s \in shorter : Len(s) = n - 1}, c \in Chars}

Texts == TextsUpTo(MaxLen)

\* str.rstrip("\n"): drop every trailing newline character, nothing else.
RECURSIVE rstrip_nl(_)
rstrip_nl(s) ==
    IF s # <<>> /\ s[Len(s)] = NL THEN rstrip_nl(SubSeq(s, 1, Len(s) - 1)) ELSE s

\* str.startswith(prefix)
startswith(s, prefix) ==
    /\ Len(prefix) <= Len(s)
    /\ SubSeq(s, 1, Len(prefix)) = prefix

Whitespace == {" ", NL}

RECURSIVE lstrip_ws(_)
lstrip_ws(s) ==
    IF s # <<>> /\ s[1] \in Whitespace THEN lstrip_ws(Tail(s)) ELSE s

RECURSIVE rstrip_ws(_)
rstrip_ws(s) ==
    IF s # <<>> /\ s[Len(s)] \in Whitespace THEN rstrip_ws(SubSeq(s, 1, Len(s) - 1)) ELSE s

\* str.strip(): drop leading and trailing whitespace.
strip(s) == rstrip_ws(lstrip_ws(s))

\* Decimal digits of a natural number, most significant first.
Digit(d) == CASE d = 0 -> "0" [] d = 1 -> "1" [] d = 2 -> "2" [] d = 3 -> "3"
              [] d = 4 -> "4" [] d = 5 -> "5" [] d = 6 -> "6" [] d = 7 -> "7"
              [] d = 8 -> "8" [] d = 9 -> "9"

RECURSIVE Decimal(_)
Decimal(n) == IF n < 10 THEN <<Digit(n)>> ELSE Append(Decimal(n \div 10), Digit(n % 10))

\* f"{int(test_id)}": no padding.
tid_format_unpadded(n) == Decimal(n)

\* f"{int(test_id):02}": decimal, zero-padded on the left to a width of at
\* least two characters (a wider number keeps all its digits).
tid_format(n) == LET d == Decimal(n) IN IF Len(d) < 2 THEN <<"0">> \o d ELSE d

\* ------------------------------------------------------------------ inputs
\* dict.get(key) on an optional entry: <<>> when the key is absent.
Absent == <<>>
Some(v) == <<v>>
Has(opt) == opt # <<>>
\* dict.get(key, ""): the entry, or the empty text when the key is absent.
GetOr(opt, default) == IF Has(opt) THEN opt[1] ELSE default

\* One element of the `cases` array: a table (dict) with an optional name and
\* an optional answer, or a scalar (cases = [1, 2] is valid TOML).
Case(n, i, a) == [isdict |-> TRUE, name |-> n, stdin |-> i, answer |-> a]
Dict(n, a) == Case(n, Absent, a)
Scalar == [isdict |-> FALSE, name |-> Absent, stdin |-> Absent, answer |-> Absent]

RECURSIVE ListsUpTo(_, _)
ListsUpTo(S, n) ==
    IF n = 0 THEN {<<>>}
    ELSE LET shorter == ListsUpTo(S, n - 1)
         IN  shorter \cup {Append(l, e) : l \in {x \in shorter : Len(x) = n - 1}, e \in S}

\* tests.toml, held as what tomllib.loads makes of its text: unparsable, or a
\* document that has no `cases` key, a `cases` value that is no list, or a
\* `cases` list.  NoFile: there is no tests.toml.
NoFile ==
    [exists |-> FALSE, parsed |-> FALSE, has_cases |-> FALSE, is_list |-> FALSE, cases |-> <<>>]
Unparsable ==
    [exists |-> TRUE, parsed |-> FALSE, has_cases |-> FALSE, is_list |-> FALSE, cases |-> <<>>]
NoCasesKey ==
    [exists |-> TRUE, parsed |-> TRUE, has_cases |-> FALSE, is_list |-> FALSE, cases |-> <<>>]
NonList ==
    [exists |-> TRUE, parsed |-> TRUE, has_cases |-> TRUE, is_list |-> FALSE, cases |-> <<>>]
Table(l) ==
    [exists |-> TRUE, parsed |-> TRUE, has_cases |-> TRUE, is_list |-> TRUE, cases |-> l]

MalformedSources == {Unparsable, NoCasesKey, NonList, Table(<<>>)}

GeneralElems ==
    {Scalar} \cup {Dict(n, a) : n \in {Absent, Some(<<"0", "2">>)},
                               a \in {Absent, Some(<<>>), Some(<<"a">>)}}
GeneralTables == {Table(l) : l \in ListsUpTo(GeneralElems, MaxCases) \ {<<>>}}

\* One answered case, the answer ranging over every text.
TextTables == {Table(<<Dict(Absent, Some(t))>>) : t \in Texts}

\* Names around the two-character prefix, no answers.
FilterNames == {Absent, Some(<<"0", "2", "e">>), Some(<<"2">>), Some(<<"1", "2">>),
                Some(<<"1", "0", "2">>)}
FilterIds == {2, 12, 102}
FilterTables ==
    {Table(l) : l \in ListsUpTo({Dict(n, Absent) : n \in FilterNames}, MaxCases) \ {<<>>}}

\* answer.txt of a Project Euler problem: absent, or its text.
Hash == "#"
EulerAnswers == {Absent, Some(<<>>), Some(<<Hash, "a">>), Some(<<"a">>), Some(<<"a", NL>>),
                 Some(<<" ", "a">>), Some(<<NL>>)}

\* What one execution of the Solution does: the text it writes to sys.stdout,
\* whether it leaves sys.stdin/sys.stdout reassigned, and how it ends
\* (returns, raises an exception, or calls sys.exit with a status).
Ends == {"return", "raise", "exit0", "exit1"}
Behaviours ==
    {[out |-> t, clobber |-> FALSE, end |-> "return"] : t \in Texts}
    \cup {[out |-> t, clobber |-> c, end |-> e] :
             t \in {<<>>, <<"a", NL>>}, c \in BOOLEAN, e \in Ends}

\* ------------------------------------------------------------------ TOML
Q == "\""
BS == "\\"
QQQ == <<Q, Q, Q>>

\* s.replace('"""', '\\"""'): left to right, occurrences do not overlap.
RECURSIVE escape_triple_quotes(_)
escape_triple_quotes(s) ==
    IF s = <<>> THEN <<>>
    ELSE IF startswith(s, QQQ)
         THEN <<BS>> \o QQQ \o escape_triple_quotes(SubSeq(s, 4, Len(s)))
         ELSE <<s[1]>> \o escape_triple_quotes(Tail(s))

\* KattisPlatform._toml_multiline
toml_multiline(s) == QQQ \o escape_triple_quotes(s) \o QQQ

\* f'"{name}"': the name between quotes, nothing escaped.
toml_basic(s) == <<Q>> \o s \o <<Q>>

\* One [[cases]] block of a document: its key/value lines, each value as
\* the literal that is written.
Block(n, i, a) == [name |-> n, stdin |-> i, answer |-> a]

\* KATTIS_TESTS_TOML_TEMPLATE: a [[cases]] header followed by comment lines.
KATTIS_TESTS_TOML_TEMPLATE == <<Block(Absent, Absent, Absent)>>

\* One sample: the stem of the .in file, its text, the text of the .ans
\* file when there is one.
Fixture(n, i, a) == [name |-> n, stdin |-> i, answer |-> a]

\* KattisPlatform.write_tests_from_samples: one block per fixture, in the
\* sorted order of the fixtures.
write_tests_from_samples(fx) ==
    [k \in 1..Len(fx) |->
        Block(Some(toml_basic(fx[k].name)),
              Some(toml_multiline(fx[k].stdin)),
              IF Has(fx[k].answer) THEN Some(toml_multiline(fx[k].answer[1])) ELSE Absent)]

\* tomllib's skip_chars
RECURSIVE skip_chars(_, _)
skip_chars(r, S) == IF r # <<>> /\ r[1] \in S THEN skip_chars(Tail(r), S) ELSE r

\* tomllib's parse_multiline_str for a basic string, after the opening
\* delimiter: r is the input left, out the text decoded so far.  The result
\* is Absent for a TOMLDecodeError.  The closing delimiter may be followed by
\* up to two quotes that belong to the text; anything left on the line after
\* the literal is an error.  A backslash escapes a quote or a backslash, or,
\* before white space up to a newline, trims all white space that follows.
RECURSIVE parse_multiline_str(_, _)
parse_multiline_str(r, out) ==
    IF r = <<>> THEN Absent
    ELSE IF startswith(r, QQQ)
    THEN LET r3 == SubSeq(r, 4, Len(r))
             n == IF startswith(r3, <<Q, Q>>) THEN 2 ELSE IF startswith(r3, <<Q>>) THEN 1 ELSE 0
         IN  IF Len(r3) = n THEN Some(out \o SubSeq(r3, 1, n)) ELSE Absent
    ELSE IF r[1] = BS
    THEN IF Len(r) = 1 THEN Absent
         ELSE LET rest == SubSeq(r, 3, Len(r))
              IN  CASE r[2] = NL -> parse_multiline_str(skip_chars(rest, {" ", NL}), out)
                    [] r[2] = " " ->
                         LET t == skip_chars(rest, {" "})
                         IN  IF t = <<>> \/ t[1] # NL THEN Absent
                             ELSE parse_multiline_str(skip_chars(Tail(t), {" ", NL}), out)
                    [] r[2] = Q -> parse_multiline_str(rest, Append(out, Q))
                    [] r[2] = BS -> parse_multiline_str(rest, Append(out, BS))
                    [] OTHER -> Absent
    ELSE parse_multiline_str(Tail(r), Append(out, r[1]))

\* The value of a multi-line basic string literal: a newline right after
\* the opening delimiter is trimmed.
parse_multiline(lit) ==
    LET r == SubSeq(lit, 4, Len(lit))
    IN  parse_multiline_str(IF startswith(r, <<NL>>) THEN Tail(r) ELSE r, <<>>)

\* The value of a one-line basic string literal without escapes.
parse_basic(lit) ==
    LET body == SubSeq(lit, 2, Len(lit) - 1)
    IN  IF \E k \in 1..Len(body) : body[k] \in {Q, BS, NL} THEN Absent ELSE Some(body)

\* The value of an optional key of a block: Absent without the key,
\* Some(Absent) when its literal does not parse.
key_basic(lit) == IF Has(lit) THEN Some(parse_basic(lit[1])) ELSE Absent
key_multiline(lit) == IF Has(lit) THEN Some(parse_multiline(lit[1])) ELSE Absent
key_ok(v) == Has(v) => Has(v[1])
key_value(v) == IF Has(v) THEN v[1] ELSE Absent

\* tomllib.loads of a document of blocks.
tomllib_loads(doc) ==
    LET names == [k \in 1..Len(doc) |-> key_basic(doc[k].name)]
        stdins == [k \in 1..Len(doc) |-> key_multiline(doc[k].stdin)]
        answers == [k \in 1..Len(doc) |-> key_multiline(doc[k].answer)]
    IN  IF \A k \in 1..Len(doc) : key_ok(names[k]) /\ key_ok(stdins[k]) /\ key_ok(answers[k])
        THEN Table([k \in 1..Len(doc) |->
                       Case(key_value(names[k]), key_value(stdins[k]), key_value(answers[k]))])
        ELSE Unparsable

\* Sample fixture texts: quotes, backslashes and newlines included.
FixChars == {"a", NL, Q, BS}
RECURSIVE FixTextsUpTo(_)
FixTextsUpTo(n) ==
    IF n = 0 THEN {<<>>}
    ELSE LET shorter == FixTextsUpTo(n - 1)
         IN  shorter \cup {Append(t, c) : t \in {x \in shorter : Len(x) = n - 1},
                                          c \in FixChars}
FixTexts == FixTextsUpTo(MaxFix)

\* What download_samples finds, sorted by file name: nothing, one fixture
\* whose input or answer is any text, or two fixtures.
SampleSets ==
    {<<>>}
    \cup {<<Fixture(<<"1">>, t, Absent)>> : t \in FixTexts}
    \cup {<<Fixture(<<"1">>, <<"a", NL>>, Some(t))>> : t \in FixTexts}
    \cup {<<Fixture(<<"1">>, <<"a", NL>>, Some(<<"a", NL>>)), Fixture(<<"2">>, <<Q>>, Absent)>>}

\* ------------------------------------------------------------------ programs
\* solution.py holds one of these programs.  "user" is any program at all.
\* The two others are deterministic and read no input:
\*   count_global    n = globals().get("n", 0) + 1; print("a" * n)
\*   count_imported  import helper; helper.n += 1; print("a" * helper.n)
\* where helper.py holds `n = 0`.
Programs == {"user", "count_global", "count_imported"}

\* "a" * n followed by the newline of print.
RECURSIVE a_times(_)
a_times(n) == IF n = 0 THEN <<>> ELSE <<"a">> \o a_times(n - 1)
print_a_times(n) == Append(a_times(n), NL)

\* What one execution of program p can do, with n the value its module
\* namespace holds for the name n (0: undefined) and h the value of helper.n.
Run(p, n, h) ==
    CASE p = "count_global" -> {[out |-> print_a_times(n + 1), clobber |-> FALSE, end |-> "return"]}
      [] p = "count_imported" -> {[out |-> print_a_times(h + 1), clobber |-> FALSE, end |-> "return"]}
      [] OTHER -> Behaviours

\* What the program writes when the interpreter runs it on its own.
FreshOutput(p) == print_a_times(1)

\* The ambient streams the process starts with: the interpreter's own, or
\* objects a host installed before calling into the harness.
AmbientStreams == {[stdin |-> "__stdin__", stdout |-> "__stdout__"],
                   [stdin |-> "host_stdin", stdout |-> "host_stdout"]}

\* The problem_id argument: omitted, an id, or the empty string.
ArgIds == {Absent, Some("hello"), Some("")}

\* Working directories: a problem directory of either platform, a directory
\* whose parent only has the platform's name, the platform root, the
\* repository root and the file-system root.
Cwds == {<<"repo", "kattis", "twosum">>, <<"repo", "euler", "1">>, <<"tmp", "kattis", "x">>,
         <<"repo", "kattis">>, <<"repo">>, <<>>}

\* ------------------------------------------------------------------ state
VARIABLES
    platform,         \* "kattis" or "euler": the platform namespace of the command line
                      \* of cp.py; "kattis.py": the command line of kattis/kattis.py
    cmd,              \* "new", "test", "run" or "submit"
    test_id,          \* --test-id: Absent (None) or Some(n)
    stdin_arg,        \* --file of `run`: "none", "ok" (readable) or "missing"
    solution_src,     \* solution.py: "absent", or the program it holds (Programs)
    arg_id,           \* the problem_id argument: Absent (None) or Some(id)
    cwd,              \* Path.cwd(), as the sequence of its directory names
    samples,          \* the fixtures download_samples finds, <<>> for none
    kattisrc,         \* .kattisrc exists
    requests_module,  \* `import requests` succeeded
    runs,             \* how many earlier processes ran this command line
    writes,           \* the files this process has written
    sent,             \* the HTTP requests this process has sent, with their responses
    problem_id,       \* the id the command works on, "" until it is resolved
    mod_globals,      \* the namespace of the module object the Solution runs in
    sys_modules,      \* state kept in the modules sys.modules caches for the process
    data,             \* tests.toml, as what tomllib.loads returns for it
    answer_file,      \* answer.txt: Absent or Some(text)
    pc,               \* position of the single thread of control
    exc,              \* the exception being propagated, or "none"
    sys_stdin,        \* the object bound to sys.stdin
    sys_stdout,       \* the object bound to sys.stdout
    original_stdin,   \* Runner.run's local
    original_stdout,  \* Runner.run's local
    output_capture,   \* text of Runner.run's StringIO
    terminal,         \* what sys.__stdout__ received since Runner.run was called
    solution_wrote,   \* history: what the Solution wrote to the stdout it was given
    cases,            \* run_stdin_cases' list, as indexes into data.cases
    idx,              \* enumerate(cases, start=1): the position of the current case
    passed,
    failed,
    unchecked,
    actual,           \* the value Runner.run returned to its caller
    ret,              \* what the command returned to main: "None", "True", "False"
    exit_status,      \* the process exit status, -1 while the process runs
    executed,         \* history: the cases Runner.run executed the Solution for
    report,           \* history: the verdict lines written so far
    summary,          \* history: the "Results:" line has been written
    before_call       \* history: <<sys.stdin, sys.stdout>> as the last Runner.run was called

inputs == <<platform, cmd, test_id, stdin_arg, arg_id, cwd, samples, kattisrc, requests_module>>
files == <<solution_src, data, answer_file>>
envvars == <<inputs, files>>
streams == <<sys_stdin, sys_stdout>>
runner == <<original_stdin, original_stdout, output_capture, terminal, solution_wrote>>
counters == <<passed, failed, unchecked>>
history == <<executed, report, summary, before_call>>
interp == <<mod_globals, sys_modules>>
outside == <<runs, writes, sent>>
world == <<problem_id, interp, outside>>
vars == <<envvars, world, pc, exc, streams, runner, cases, idx, counters, actual,
          ret, exit_status, history>>

\* Path.exists() of solution.py.
solution_exists == solution_src # "absent"

\* The interpreter as main() is about to call args.func: nothing has run yet.
\* `new` is given its problem id; the other commands of cp.py resolve theirs
\* first.  kattis.py is started with a problem id.
Process ==
    /\ pc = IF cmd = "new" \/ platform = "kattis.py" THEN "main" ELSE "resolve"
    /\ problem_id = IF cmd = "new" \/ platform = "kattis.py" THEN arg_id[1] ELSE ""
    /\ mod_globals = 0 /\ sys_modules = 0
    /\ runs = 0 /\ writes = {} /\ sent = <<>>
    /\ exc = "none"
    /\ \E amb \in AmbientStreams : sys_stdin = amb.stdin /\ sys_stdout = amb.stdout
    /\ original_stdin = "unset" /\ original_stdout = "unset"
    /\ output_capture = <<>> /\ terminal = <<>> /\ solution_wrote = <<>>
    /\ cases = <<>> /\ idx = 0
    /\ passed = 0 /\ failed = 0 /\ unchecked = 0
    /\ actual = <<>> /\ ret = "None" /\ exit_status = -1
    /\ executed = <<>> /\ report = <<>> /\ summary = FALSE
    /\ before_call = <<>>

\* The command line and the problem directory.
Environment(p, c, t, f, src, d, a, fx, rc, rq) ==
    /\ platform = p /\ cmd = c /\ test_id = t /\ stdin_arg = f
    /\ solution_src = src /\ data = d /\ answer_file = a
    /\ samples = fx /\ kattisrc = rc /\ requests_module = rq

\* The same where .kattisrc exists and requests is installed.
Problem(p, c, t, f, src, d, a, fx) == Environment(p, c, t, f, src, d, a, fx, TRUE, TRUE)

\* The same with an explicit problem id, given in the repository root.
CommandLine(p, c, t, f, src, d, a, fx) ==
    /\ Problem(p, c, t, f, src, d, a, fx)
    /\ arg_id = Some("hello") /\ cwd = <<"repo">>

\* Sample directories for kattis.py: none, one answered sample, two samples
\* of which one has no answer file.
LegacySamples ==
    {<<>>,
     <<Fixture(<<"0", "2">>, <<"a">>, Some(<<"a">>))>>,
     <<Fixture(<<"1">>, <<"a">>, Some(<<"a", NL>>)), Fixture(<<"2">>, <<>>, Absent)>>}

\* Tables of unanswered cases, to run one Solution several times.
RepeatTables == {Table(l) : l \in ListsUpTo({Dict(Absent, Absent)}, MaxCases) \ {<<>>}}

\* The process for one command line with an explicit problem id.
Start(p, c, t, f, s, d, a) ==
    /\ CommandLine(p, c, t, f, IF s THEN "user" ELSE "absent", d, a, <<>>)
    /\ Process

Init ==
    \/ \E d \in GeneralTables, t \in {Absent, Some(2)} :
          Start("kattis", "test", t, "none", TRUE, d, Absent)
    \/ \E d \in TextTables : Start("kattis", "test", Absent, "none", TRUE, d, Absent)
    \/ \E d \in FilterTables, n \in FilterIds :
          Start("kattis", "test", Some(n), "none", TRUE, d, Absent)
    \/ \E d \in MalformedSources, t \in {Absent, Some(2)} :
          Start("kattis", "test", t, "none", TRUE, d, Absent)
    \/ \E a \in EulerAnswers : Start("euler", "test", Absent, "none", TRUE, NoCasesKey, a)
    \/ \E f \in {"ok", "missing"} : Start("kattis", "run", Absent, f, TRUE, NoCasesKey, Absent)
    \/ Start("euler", "run", Absent, "none", TRUE, NoCasesKey, Absent)
    \/ \E p \in {"kattis", "euler"}, c \in {"test", "run", "submit"},
          d \in {Table(<<Dict(Absent, Absent)>>), NoFile} :
          /\ CommandLine(p, c, Absent, "none", "absent", d, Some(<<"a">>),
                         <<Fixture(<<"1">>, <<"a", NL>>, Absent)>>)
          /\ Process
    \/ \E fx \in LegacySamples, t \in {Absent, Some(2)} :
          /\ CommandLine("kattis.py", "test", t, "none", "user", NoFile, Absent, fx)
          /\ Process
    \/ \E rc \in BOOLEAN, rq \in BOOLEAN :
          /\ Environment("kattis", "submit", Absent, "none", "user", NoFile, Absent, <<>>, rc, rq)
          /\ arg_id = Some("hello") /\ cwd = <<"repo">>
          /\ Process
    \/ /\ CommandLine("euler", "submit", Absent, "none", "user", NoFile, Some(<<"a">>), <<>>)
       /\ Process
    \/ \E src \in {"absent", "user"},
          d \in {NoFile, Table(<<Dict(Some(<<"0", "2">>), Some(<<"a">>))>>)}, fx \in SampleSets :
          /\ CommandLine("kattis", "new", Absent, "none", src, d, Absent, fx)
          /\ Process
    \/ \E src \in {"absent", "user"}, a \in {Absent, Some(<<"a">>)} :
          /\ CommandLine("euler", "new", Absent, "none", src, NoFile, a, <<>>)
          /\ Process
    \/ \E fx \in SampleSets :
          /\ CommandLine("kattis", "test", Absent, "none", "count_global", NoFile, Absent, fx)
          /\ Process
    \/ \E d \in RepeatTables, src \in Programs \ {"user"} :
          /\ CommandLine("kattis", "test", Absent, "none", src, d, Absent, <<>>)
          /\ Process
    \/ \E p \in {"kattis", "euler"}, arg \in ArgIds, dir \in Cwds :
          /\ Problem(p, "test", Absent, "none", "user", Table(<<Dict(Absent, Absent)>>),
                     Some(<<"a">>), <<>>)
          /\ arg_id = arg /\ cwd = dir
          /\ Process

\* ------------------------------------------------------------------ helpers
\* A check of the solution that always passes.
ensure_solution_exists_skipped == TRUE

\* Platform.ensure_solution_exists: passes iff solution.py exists, else sys.exit(1).
ensure_solution_exists == solution_exists

\* load_tests_toml without the emptiness test.
load_tests_toml_any_list(d) ==
    /\ d.parsed
    /\ IF d.has_cases THEN d.is_list ELSE TRUE

\* load_tests_toml returns (instead of calling sys.exit(1)) iff the source
\* parses and data.get("cases", []) is a list and is not empty.
load_tests_toml(d) ==
    /\ d.parsed
    /\ LET is_list == IF d.has_cases THEN d.is_list ELSE TRUE
           lst == IF d.has_cases /\ d.is_list THEN d.cases ELSE <<>>
       IN  is_list /\ lst # <<>>

\* A filter that keeps every case when no name starts with tid.
select_cases_or_all(cs, tid) ==
    LET keep(i) == startswith(GetOr(data.cases[i].name, <<>>), tid)
    IN  IF SelectSeq(cs, keep) = <<>> THEN cs ELSE SelectSeq(cs, keep)

\* The filter of run_stdin_cases: the cases whose str(name) starts with tid.
select_cases(cs, tid) ==
    LET keep(i) == startswith(GetOr(data.cases[i].name, <<>>), tid)
    IN  SelectSeq(cs, keep)

\* has_expected by truthiness (case.get("answer")) instead of key presence.
has_expected_truthy(case) == Has(case.answer) /\ case.answer[1] # <<>>

\* has_expected = "answer" in case
has_expected(case) == Has(case.answer)

\* compare_report(expected, actual): PASSED iff the two texts are equal.
compare_report(expected, act) == act = expected

\* The comparison without the normalisation of the expected text.
case_passes_unstripped(expected, act) == compare_report(expected, act)

\* The comparison of run_stdin_cases: both sides lose their trailing newlines.
case_passes(expected, act) == compare_report(rstrip_nl(expected), rstrip_nl(act))

\* A result that unchecked cases gate too.
run_result_strict(p, f, u) == f = 0 /\ u = 0

\* The value run_stdin_cases returns.
run_result(p, f, u) == f = 0

\* The process ends with `status`.
Exit(status) == pc' = "exited" /\ exit_status' = status

\* An exception starts to propagate out of the command.
Raise(e) == pc' = "unwind" /\ exc' = e

Indexes(l) == [i \in 1..Len(l) |-> i]

\* Where Runner.run reads stdin from: "none" (no stdin_file), "ok" or "missing".
stdin_source ==
    IF cmd = "test" THEN (IF platform = "kattis" THEN "ok" ELSE "none") ELSE stdin_arg

\* Where control continues when Runner.run returns.
after_run ==
    IF cmd \in {"run", "submit"} THEN "main_return"
    ELSE IF platform = "kattis" THEN "classify" ELSE "euler_check"

\* ------------------------------------------------------------------ problem id
\* Path.name and Path.parent ("" and the root itself at the root).
path_name(p) == IF p = <<>> THEN "" ELSE p[Len(p)]
path_parent(p) == IF p = <<>> THEN <<>> ELSE SubSeq(p, 1, Len(p) - 1)

\* Platform.detect_current_problem: the name of the working directory when
\* its parent directory is named like the platform; Absent for ValueError.
detect_current_problem(dir) ==
    IF path_name(path_parent(dir)) = platform THEN Some(path_name(dir)) ELSE Absent

\* A resolution that prefers the working directory to the argument.
resolve_problem_id_cwd_first(arg, dir) ==
    IF Has(detect_current_problem(dir)) THEN detect_current_problem(dir) ELSE arg

\* Platform.resolve_problem_id: `problem_id if problem_id else detect...`;
\* None and the empty string are both falsy.
resolve_problem_id(arg, dir) ==
    IF Has(arg) /\ arg[1] # "" THEN arg ELSE detect_current_problem(dir)

\* The lambda of register_cli evaluates plat.resolve_problem_id(a.problem_id)
\* before it calls the command.
resolve ==
    /\ pc = "resolve"
    /\ LET id == resolve_problem_id(arg_id, cwd)
       IN  IF Has(id)
           THEN problem_id' = id[1] /\ pc' = "main" /\ UNCHANGED exc
           ELSE Raise("ValueError") /\ UNCHANGED problem_id
    /\ UNCHANGED <<envvars, interp, outside, streams, runner, cases, idx, counters, actual, ret,
                   exit_status, history>>

\* ------------------------------------------------------------------ commands
\* One HTTP exchange: the request, the status of the response and what its
\* body holds.
Exchange(r, st, b) == [req |-> r, status |-> st, body |-> b]

\* KattisPlatform.download_samples: what has been sent when it returns.
\* Fixtures that are found were in the temporary directory already or have
\* just been downloaded; without fixtures the download was tried and failed,
\* unless the requests module is missing.
download_samples(log) ==
    IF samples # <<>>
    THEN {log} \cup (IF requests_module THEN {Append(log, Exchange("samples", 200, <<>>))} ELSE {})
    ELSE IF requests_module THEN {Append(log, Exchange("samples", 404, <<>>))} ELSE {log}

\* A scaffold that writes the template whatever is there.
scaffold_solution_overwrite(src, template) == template

\* Platform.scaffold_solution: the template is written when there is no
\* solution.py.
scaffold_solution(src, template) == IF src = "absent" THEN template ELSE src

\* Platform.write_if_absent on tests.toml.
write_if_absent(file, content) == IF file.exists THEN file ELSE content

\* The names of the files a step wrote.
Written(name, old, new) == IF new # old THEN {name} ELSE {}

\* KattisPlatform.cmd_new: the solution is scaffolded; without a tests.toml
\* one is generated from the samples, or written from the template when
\* there are none.
kattis_cmd_new ==
    /\ pc = "main" /\ platform = "kattis" /\ cmd = "new"
    /\ solution_src' = scaffold_solution(solution_src, "KATTIS_TEMPLATE")
    /\ IF data.exists
       THEN UNCHANGED <<data, sent>>
       ELSE /\ sent' \in download_samples(sent)
            /\ data' = IF samples # <<>>
                       THEN tomllib_loads(write_tests_from_samples(samples))
                       ELSE write_if_absent(data, tomllib_loads(KATTIS_TESTS_TOML_TEMPLATE))
    /\ writes' = writes \cup Written("solution.py", solution_src, solution_src')
                        \cup Written("tests.toml", data, data')
    /\ pc' = "main_return"
    /\ UNCHANGED <<inputs, answer_file, problem_id, interp, runs, exc, streams, runner, cases,
                   idx, counters, actual, ret, exit_status, history>>

\* The first line of a new answer.txt: a comment.
ANSWER_TEMPLATE == <<Hash, "a", NL>>

\* EulerPlatform.cmd_new: solution.py and answer.txt are written when they
\* do not exist.
euler_cmd_new ==
    /\ pc = "main" /\ platform = "euler" /\ cmd = "new"
    /\ solution_src' = IF ~solution_exists THEN "EULER_TEMPLATE" ELSE solution_src
    /\ answer_file' = IF ~Has(answer_file) THEN Some(ANSWER_TEMPLATE) ELSE answer_file
    /\ writes' = writes \cup Written("solution.py", solution_src, solution_src')
                        \cup Written("answer.txt", answer_file, answer_file')
    /\ pc' = "main_return"
    /\ UNCHANGED <<inputs, data, problem_id, interp, runs, sent, exc, streams, runner, cases,
                   idx, counters, actual, ret, exit_status, history>>

\* The user runs the same `new` command once more: a new process in the
\* directory the last one left.
again ==
    /\ pc = "exited" /\ cmd = "new" /\ runs + 1 < MaxRuns
    /\ runs' = runs + 1
    /\ pc' = "main" /\ exit_status' = -1
    /\ writes' = {} /\ sent' = <<>>
    /\ UNCHANGED <<envvars, problem_id, interp, exc, streams, runner, cases, idx, counters,
                   actual, ret, history>>

\* A cmd_test that writes tests.toml from the samples whether it exists or not.
generate_always(d) == tomllib_loads(write_tests_from_samples(samples))

\* Lines 143-150 of cmd_test: tests.toml is written from the samples only
\* when it does not exist.
generate_if_absent(d) ==
    IF d.exists THEN d ELSE tomllib_loads(write_tests_from_samples(samples))

\* KattisPlatform.cmd_test up to its call of run_stdin_cases.  Without a
\* tests.toml one is generated from the samples (lines 144-150), or the
\* command exits when there are none; then tests.toml is loaded.
kattis_cmd_test ==
    /\ pc = "main" /\ platform = "kattis" /\ cmd = "test"
    /\ IF ~ensure_solution_exists
       THEN Raise("sys.exit(1)") /\ UNCHANGED <<cases, data, sent>>
       ELSE /\ IF data.exists THEN UNCHANGED sent ELSE sent' \in download_samples(sent)
            /\ IF ~data.exists /\ samples = <<>>
               THEN Raise("sys.exit(1)") /\ UNCHANGED <<cases, data>>
               ELSE /\ data' = generate_if_absent(data)
                    /\ IF load_tests_toml(data')
                       THEN pc' = "run_stdin_cases" /\ cases' = Indexes(data'.cases)
                            /\ UNCHANGED exc
                       ELSE Raise("sys.exit(1)") /\ UNCHANGED cases
    /\ writes' = writes \cup Written("tests.toml", data, data')
    /\ UNCHANGED <<inputs, solution_src, answer_file, problem_id, interp, runs, streams, runner,
                   idx, counters, actual, ret, exit_status, history>>

\* run_stdin_cases before its loop: the optional filter, the counters.
\* c.get on an element that is no dict raises AttributeError.
run_stdin_cases ==
    /\ pc = "run_stdin_cases"
    /\ IF Has(test_id) /\ \E i \in 1..Len(cases) : ~data.cases[cases[i]].isdict
       THEN Raise("AttributeError") /\ UNCHANGED cases
       ELSE /\ cases' = IF Has(test_id) THEN select_cases(cases, tid_format(test_id[1]))
                        ELSE cases
            /\ pc' = "for_case"
            /\ UNCHANGED exc
    /\ passed' = 0 /\ failed' = 0 /\ unchecked' = 0
    /\ UNCHANGED <<envvars, world, streams, runner, idx, actual, ret, exit_status, history>>

\* The head of the loop and the body up to the call of Runner.run: the next
\* case's fields are read (AttributeError when it is no dict), the banner is
\* written, the temporary stdin file is written.
for_case ==
    /\ pc = "for_case"
    /\ IF idx = Len(cases)
       THEN pc' = "summary" /\ UNCHANGED <<idx, exc, actual>>
       ELSE /\ idx' = idx + 1
            /\ actual' = <<>>    \* the previous value is never read again
            /\ IF data.cases[cases[idx + 1]].isdict
               THEN pc' = "Runner_run" /\ UNCHANGED exc
               ELSE Raise("AttributeError")
    /\ UNCHANGED <<envvars, world, streams, runner, cases, counters, ret, exit_status, history>>

\* Platform.cmd_run up to its call of Runner.run.
cmd_run ==
    /\ pc = "main" /\ cmd = "run"
    /\ IF ensure_solution_exists
       THEN pc' = "Runner_run" /\ UNCHANGED exc
       ELSE Raise("sys.exit(1)")
    /\ UNCHANGED <<envvars, world, streams, runner, cases, idx, counters, actual, ret,
                   exit_status, history>>

\* EulerPlatform.cmd_test up to its call of Runner.run (lines 48-51).
euler_cmd_test ==
    /\ pc = "main" /\ platform = "euler" /\ cmd = "test"
    /\ IF ensure_solution_exists
       THEN pc' = "Runner_run" /\ UNCHANGED exc
       ELSE Raise("sys.exit(1)")
    /\ UNCHANGED <<envvars, world, streams, runner, cases, idx, counters, actual, ret,
                   exit_status, history>>

\* ------------------------------------------------------------------ submit
\* Status codes of a response: 200, another success, two failures.
Statuses == {200, 204, 403, 500}

\* The text of the response to the upload, in pieces: the words
\* "Submission ID: ", a run of digits, any other text.
BodyParts == {"Submission ID: ", "7", "x"}
Bodies == {<<>>} \cup {<<b>> : b \in BodyParts} \cup {<<b, c>> : b, c \in BodyParts}

\* re.search(r"Submission ID: (\d+)", resp.text) finds a match.
re_search(body) ==
    \E k \in 1..(Len(body) - 1) : body[k] = "Submission ID: " /\ body[k + 1] = "7"

\* A check of the login response that lets every status pass.
login_ok_any(status) == TRUE

\* `resp.status_code != 200` is the failure of a request.
login_ok(status) == status = 200

\* Both endings print "Submitted! ID: ..." as if an id had been found.
submit_message_always_id(body) == "Submitted! ID"

\* Lines 189-196: what cmd_submit prints after the upload.
submit_message(body) == IF re_search(body) THEN "Submitted! ID" ELSE "Submitted!"

\* KattisPlatform.cmd_submit up to the login request (lines 156-166): the
\* solution, the requests module and .kattisrc are checked in this order.
kattis_cmd_submit ==
    /\ pc = "main" /\ platform = "kattis" /\ cmd = "submit"
    /\ IF ensure_solution_exists /\ requests_module /\ kattisrc
       THEN pc' = "login" /\ UNCHANGED exc
       ELSE Raise("sys.exit(1)")
    /\ UNCHANGED <<envvars, world, streams, runner, cases, idx, counters, actual, ret,
                   exit_status, history>>

\* Lines 167-172: the login request; session.post raises when there is no
\* response, and a status other than 200 is sys.exit(1).
login ==
    /\ pc = "login"
    /\ \/ /\ Raise("ConnectionError")
          /\ UNCHANGED sent
       \/ \E st \in Statuses :
             /\ sent' = Append(sent, Exchange("login", st, <<>>))
             /\ IF login_ok(st) THEN pc' = "upload" /\ UNCHANGED exc
                ELSE Raise("sys.exit(1)")
    /\ UNCHANGED <<envvars, problem_id, interp, runs, writes, streams, runner, cases, idx,
                   counters, actual, ret, exit_status, history>>

\* Lines 173-196: the solution is read and uploaded; a status other than
\* 200 is sys.exit(1); else the submission is reported, with its id when the
\* response holds one, and the method returns.
upload ==
    /\ pc = "upload"
    /\ \/ /\ Raise("ConnectionError")
          /\ UNCHANGED <<sent, report>>
       \/ \E st \in Statuses, b \in Bodies :
             /\ sent' = Append(sent, Exchange("submit", st, b))
             /\ IF st = 200
                THEN /\ report' = Append(report, submit_message(b))
                     /\ pc' = "main_return"
                     /\ UNCHANGED exc
                ELSE Raise("sys.exit(1)") /\ UNCHANGED report
    /\ UNCHANGED <<envvars, problem_id, interp, runs, writes, streams, runner, cases, idx,
                   counters, actual, ret, exit_status, executed, summary, before_call>>

\* EulerPlatform.cmd_submit up to its call of Runner.run; what follows the
\* call prints the answer and returns.
euler_cmd_submit ==
    /\ pc = "main" /\ platform = "euler" /\ cmd = "submit"
    /\ IF ensure_solution_exists
       THEN pc' = "Runner_run" /\ UNCHANGED exc
       ELSE Raise("sys.exit(1)")
    /\ UNCHANGED <<envvars, world, streams, runner, cases, idx, counters, actual, ret,
                   exit_status, history>>

\* ------------------------------------------------------------------ Runner.run
\* A buffer that is kept from one call of Runner.run to the next.
StringIO_reused == output_capture

\* io.StringIO(): a new, empty buffer.
StringIO == <<>>

\* f.write(obj) on one file of the Tee: the text is appended.
file_write(f, obj) == f \o obj

\* What a file of the Tee holds after Tee.write was called for each of the
\* chunks in turn.
RECURSIVE Tee_write(_, _)
Tee_write(f, chunks) ==
    IF chunks = <<>> THEN f
    ELSE Tee_write(file_write(f, <<Head(chunks)>>), Tail(chunks))

\* Lines 45-48: the ambient streams are saved, stdout becomes a Tee of
\* sys.__stdout__ and a new StringIO.
Runner_run ==
    /\ pc = "Runner_run"
    /\ original_stdin' = sys_stdin
    /\ original_stdout' = sys_stdout
    /\ output_capture' = StringIO
    /\ terminal' = <<>>
    /\ solution_wrote' = <<>>
    /\ sys_stdout' = "Tee"
    /\ pc' = "Runner_try"
    /\ before_call' = <<sys_stdin, sys_stdout>>
    /\ UNCHANGED <<envvars, world, exc, sys_stdin, cases, idx, counters, actual, ret,
                   exit_status, executed, report, summary>>

\* importlib.util.module_from_spec(spec): a new module object, its namespace
\* without any name the Solution defines.
module_from_spec == 0

\* Lines 50-56 (58-62 without stdin_file): the input file is opened and bound
\* to sys.stdin, the module spec is made and a module object created from it.
\* open raises OSError for a missing file; a spec of None raises RuntimeError.
Runner_try ==
    /\ pc = "Runner_try"
    /\ IF stdin_source = "missing"
       THEN pc' = "Runner_finally" /\ exc' = "OSError" /\ UNCHANGED <<sys_stdin, mod_globals>>
       ELSE /\ sys_stdin' = IF stdin_source = "ok" THEN "stdin_file" ELSE sys_stdin
            /\ \E spec_ok \in BOOLEAN :
                  IF spec_ok
                  THEN pc' = "exec_module" /\ mod_globals' = module_from_spec /\ UNCHANGED exc
                  ELSE pc' = "Runner_finally" /\ exc' = "RuntimeError" /\ UNCHANGED mod_globals
    /\ UNCHANGED <<envvars, problem_id, sys_modules, outside, sys_stdout, runner, cases, idx, counters, actual, ret,
                   exit_status, history>>

\* spec.loader.exec_module(mod): the Solution runs.  What it writes, one
\* character at a time, goes through the Tee to sys.__stdout__ and into
\* output_capture.
exec_module ==
    /\ pc = "exec_module"
    /\ mod_globals' = IF solution_src = "count_global" THEN mod_globals + 1 ELSE mod_globals
    /\ sys_modules' = IF solution_src = "count_imported" THEN sys_modules + 1 ELSE sys_modules
    /\ \E b \in Run(solution_src, mod_globals, sys_modules) :
          /\ output_capture' = Tee_write(output_capture, b.out)
          /\ terminal' = Tee_write(terminal, b.out)
          /\ solution_wrote' = b.out
          /\ sys_stdin' = IF b.clobber THEN "solution_stdin" ELSE sys_stdin
          /\ sys_stdout' = IF b.clobber THEN "solution_stdout" ELSE sys_stdout
          /\ exc' = CASE b.end = "return" -> "none"
                      [] b.end = "raise" -> "SolutionError"
                      [] b.end = "exit0" -> "SystemExit(0)"
                      [] b.end = "exit1" -> "SystemExit(1)"
    /\ executed' = Append(executed, IF cases = <<>> THEN 0 ELSE cases[idx])
    /\ pc' = "Runner_finally"
    /\ UNCHANGED <<envvars, problem_id, outside, original_stdin, original_stdout, cases, idx, counters,
                   actual, ret, exit_status, report, summary, before_call>>

\* Runner.run without its try/finally: the streams are restored on the normal
\* path only.
Runner_finally_no_finally ==
    /\ pc = "Runner_finally"
    /\ IF exc = "none"
       THEN /\ sys_stdin' = original_stdin
            /\ sys_stdout' = original_stdout
            /\ actual' = rstrip_nl(output_capture)
            /\ pc' = after_run
       ELSE pc' = "unwind" /\ UNCHANGED <<streams, actual>>
    /\ UNCHANGED <<envvars, world, exc, runner, cases, idx, counters, ret, exit_status, history>>

\* A finally clause that restores sys.stdout only.
Runner_finally_stdout_only ==
    /\ pc = "Runner_finally"
    /\ sys_stdout' = original_stdout
    /\ IF exc = "none"
       THEN actual' = rstrip_nl(output_capture) /\ pc' = after_run
       ELSE pc' = "unwind" /\ UNCHANGED actual
    /\ UNCHANGED <<envvars, world, exc, sys_stdin, runner, cases, idx, counters, ret,
                   exit_status, history>>

\* Lines 64-67: the finally clause restores both streams; then the captured
\* text is returned without its trailing newlines, or the exception goes on.
Runner_finally ==
    /\ pc = "Runner_finally"
    /\ sys_stdin' = original_stdin
    /\ sys_stdout' = original_stdout
    /\ IF exc = "none"
       THEN actual' = rstrip_nl(output_capture) /\ pc' = after_run
       ELSE pc' = "unwind" /\ UNCHANGED actual
    /\ UNCHANGED <<envvars, world, exc, runner, cases, idx, counters, ret, exit_status, history>>

\* ------------------------------------------------------------------ verdicts
\* The classification with the increment of `unchecked` forgotten.
classify_unchecked_not_counted ==
    /\ pc = "classify"
    /\ LET case == data.cases[cases[idx]]
       IN  IF Has(case.answer)
           THEN IF compare_report(rstrip_nl(case.answer[1]), rstrip_nl(actual))
                THEN /\ passed' = passed + 1
                     /\ report' = Append(report, "Pass")
                     /\ UNCHANGED <<failed, unchecked>>
                ELSE /\ failed' = failed + 1
                     /\ report' = Append(report, "Fail")
                     /\ UNCHANGED <<passed, unchecked>>
           ELSE /\ report' = Append(report, "Unchecked")
                /\ UNCHANGED <<passed, failed, unchecked>>
    /\ pc' = "for_case"
    /\ UNCHANGED <<envvars, world, exc, streams, runner, cases, idx, actual, ret, exit_status,
                   executed, summary, before_call>>

\* Lines 121-130 of run_stdin_cases: the case just run is classified and
\* exactly one counter is incremented.
classify ==
    /\ pc = "classify"
    /\ LET case == data.cases[cases[idx]]
       IN  IF has_expected(case)
           THEN IF case_passes(case.answer[1], actual)
                THEN /\ passed' = passed + 1
                     /\ report' = Append(report, "Pass")
                     /\ UNCHANGED <<failed, unchecked>>
                ELSE /\ failed' = failed + 1
                     /\ report' = Append(report, "Fail")
                     /\ UNCHANGED <<passed, unchecked>>
           ELSE /\ unchecked' = unchecked + 1
                /\ report' = Append(report, "Unchecked")
                /\ UNCHANGED <<passed, failed>>
    /\ pc' = "for_case"
    /\ UNCHANGED <<envvars, world, exc, streams, runner, cases, idx, actual, ret, exit_status,
                   executed, summary, before_call>>

\* Lines 131-134: the "Results:" line, and the value returned.
results ==
    /\ pc = "summary"
    /\ summary' = TRUE
    /\ ret' = IF run_result(passed, failed, unchecked) THEN "True" ELSE "False"
    /\ pc' = "main_return"
    /\ UNCHANGED <<envvars, world, exc, streams, runner, cases, idx, counters, actual,
                   exit_status, executed, report, before_call>>

\* EulerPlatform.cmd_test after Runner.run returned (lines 52-61): no usable
\* answer.txt is sys.exit(1); else the stripped texts are compared and the
\* method returns None.
euler_check ==
    /\ pc = "euler_check"
    /\ LET expected == strip(GetOr(answer_file, <<>>))
       IN  IF ~Has(answer_file) \/ startswith(expected, <<Hash>>) \/ expected = <<>>
           THEN Raise("sys.exit(1)") /\ UNCHANGED report
           ELSE /\ report' = Append(report, IF compare_report(strip(expected), strip(actual))
                                            THEN "Pass" ELSE "Fail")
                /\ pc' = "main_return"
                /\ UNCHANGED exc
    /\ UNCHANGED <<envvars, world, streams, runner, cases, idx, counters, actual, ret,
                   exit_status, executed, summary, before_call>>

\* ------------------------------------------------------------------ kattis.py
\* The filter of the legacy cmd_test (line 175): the samples whose file name
\* starts with the padded test id.
legacy_select(cs, tid) ==
    LET keep(i) == startswith(samples[i].name \o <<".", "i", "n">>, tid)
    IN  SelectSeq(cs, keep)

\* kattis.py cmd_test, lines 157-181: the solution and the samples are
\* checked, the samples are filtered, the counters are set and the ambient
\* streams are saved.
legacy_cmd_test ==
    /\ pc = "main" /\ platform = "kattis.py" /\ cmd = "test"
    /\ IF ~solution_exists
       THEN Raise("sys.exit(1)") /\ UNCHANGED <<cases, sent, original_stdin, original_stdout>>
       ELSE /\ sent' \in download_samples(sent)
            /\ IF samples = <<>>
               THEN Raise("sys.exit(1)") /\ UNCHANGED <<cases, original_stdin, original_stdout>>
               ELSE /\ cases' = IF Has(test_id)
                                THEN legacy_select(Indexes(samples), tid_format(test_id[1]))
                                ELSE Indexes(samples)
                    /\ original_stdin' = sys_stdin
                    /\ original_stdout' = sys_stdout
                    /\ pc' = "legacy_for"
                    /\ UNCHANGED exc
    /\ passed' = 0 /\ failed' = 0
    /\ UNCHANGED <<envvars, problem_id, interp, runs, writes, streams, output_capture, terminal,
                   solution_wrote, idx, unchecked, actual, ret, exit_status, history>>

\* Lines 183-198: the next sample; sys.stdout becomes a Tee with a new
\* StringIO, the input file is opened and bound to sys.stdin, the module
\* object is made.
legacy_for ==
    /\ pc = "legacy_for"
    /\ IF idx = Len(cases)
       THEN /\ pc' = "legacy_end"
            /\ UNCHANGED <<idx, actual, streams, output_capture, terminal, solution_wrote,
                           mod_globals>>
       ELSE /\ idx' = idx + 1
            /\ actual' = <<>>
            /\ output_capture' = StringIO
            /\ terminal' = <<>>
            /\ solution_wrote' = <<>>
            /\ sys_stdout' = "Tee"
            /\ sys_stdin' = "stdin_file"
            /\ mod_globals' = module_from_spec
            /\ pc' = "legacy_exec"
    /\ UNCHANGED <<envvars, problem_id, sys_modules, outside, exc, original_stdin,
                   original_stdout, cases, counters, ret, exit_status, history>>

\* Line 199: the Solution runs.  An exception leaves the with block, which
\* closes the file, and the function; no handler or finally clause is passed.
legacy_exec ==
    /\ pc = "legacy_exec"
    /\ \E b \in Run(solution_src, mod_globals, sys_modules) :
          /\ output_capture' = Tee_write(output_capture, b.out)
          /\ terminal' = Tee_write(terminal, b.out)
          /\ solution_wrote' = b.out
          /\ sys_stdin' = IF b.clobber THEN "solution_stdin" ELSE sys_stdin
          /\ sys_stdout' = IF b.clobber THEN "solution_stdout" ELSE sys_stdout
          /\ exc' = CASE b.end = "return" -> "none"
                      [] b.end = "raise" -> "SolutionError"
                      [] b.end = "exit0" -> "SystemExit(0)"
                      [] b.end = "exit1" -> "SystemExit(1)"
          /\ pc' = IF b.end = "return" THEN "legacy_verdict" ELSE "unwind"
    /\ executed' = Append(executed, cases[idx])
    /\ UNCHANGED <<envvars, world, original_stdin, original_stdout, cases, idx, counters,
                   actual, ret, exit_status, report, summary, before_call>>

\* Lines 201-220: the captured text loses its trailing newlines, sys.stdout
\* is set back, and the text is compared with the answer file when there is
\* one.
legacy_verdict ==
    /\ pc = "legacy_verdict"
    /\ actual' = rstrip_nl(output_capture)
    /\ sys_stdout' = original_stdout
    /\ LET sample == samples[cases[idx]]
       IN  IF Has(sample.answer)
           THEN IF actual' = rstrip_nl(sample.answer[1])
                THEN /\ passed' = passed + 1
                     /\ report' = Append(report, "Pass")
                     /\ UNCHANGED failed
                ELSE /\ failed' = failed + 1
                     /\ report' = Append(report, "Fail")
                     /\ UNCHANGED passed
           ELSE /\ report' = Append(report, "Unchecked")
                /\ UNCHANGED <<passed, failed>>
    /\ pc' = "legacy_for"
    /\ UNCHANGED <<envvars, world, exc, sys_stdin, runner, cases, idx, unchecked, ret,
                   exit_status, executed, summary, before_call>>

\* Lines 222-229: sys.stdin is set back, the Results line is written, the
\* function returns; main drops what it returns.
legacy_end ==
    /\ pc = "legacy_end"
    /\ sys_stdin' = original_stdin
    /\ summary' = TRUE
    /\ ret' = IF failed = 0 THEN "True" ELSE "False"
    /\ pc' = "main_return"
    /\ UNCHANGED <<envvars, world, exc, sys_stdout, runner, cases, idx, counters, actual,
                   exit_status, executed, report, before_call>>

\* ------------------------------------------------------------------ main
\* main, line 66: args.func(args) returned; its value is dropped and the
\* interpreter exits with status 0.
main_return ==
    /\ pc = "main_return"
    /\ Exit(0)
    /\ UNCHANGED <<envvars, world, exc, streams, runner, cases, idx, counters, actual, ret, history>>

\* No frame between the raise and the interpreter catches anything: a
\* SystemExit ends the process with its code, any other exception with 1.
unwind ==
    /\ pc = "unwind"
    /\ Exit(IF exc = "SystemExit(0)" THEN 0 ELSE 1)
    /\ UNCHANGED <<envvars, world, exc, streams, runner, cases, idx, counters, actual, ret, history>>

Next ==
    \/ resolve
    \/ kattis_cmd_new
    \/ euler_cmd_new
    \/ again
    \/ kattis_cmd_submit
    \/ login
    \/ upload
    \/ euler_cmd_submit
    \/ legacy_cmd_test
    \/ legacy_for
    \/ legacy_exec
    \/ legacy_verdict
    \/ legacy_end
    \/ kattis_cmd_test
    \/ run_stdin_cases
    \/ for_case
    \/ cmd_run
    \/ euler_cmd_test
    \/ Runner_run
    \/ Runner_try
    \/ exec_module
    \/ Runner_finally
    \/ classify
    \/ results
    \/ euler_check
    \/ main_return
    \/ unwind

Spec == Init /\ [][Next]_vars

\* ------------------------------------------------------------------ types
TypeOK ==
    /\ pc \in {"legacy_for", "legacy_exec", "legacy_verdict", "legacy_end"} \cup
             {"resolve", "main", "login", "upload", "run_stdin_cases", "for_case", "Runner_run", "Runner_try",
               "exec_module", "Runner_finally", "classify", "summary", "euler_check",
               "main_return", "unwind", "exited"}
    /\ exit_status \in {-1, 0, 1}
    /\ passed \in 0..MaxCases /\ failed \in 0..MaxCases /\ unchecked \in 0..MaxCases
    /\ idx \in 0..Len(cases)
    /\ ret \in {"None", "True", "False"}
    /\ runs \in 0..(MaxRuns - 1)
    /\ writes \subseteq {"solution.py", "tests.toml", "answer.txt"}

\* ------------------------------------------------------------------ claims
KattisTest == platform = "kattis" /\ cmd = "test"
InRunner == pc \in {"Runner_try", "exec_module", "Runner_finally"}
Sum == passed + failed + unchecked
FailCount == Cardinality({i \in DOMAIN report : report[i] = "Fail"})
IsPrefix(p, q) == Len(p) <= Len(q) /\ SubSeq(q, 1, Len(p)) = p

\* C1: once Runner.run has been called and has ended, by a return or by any
\* exception (the Solution raised or called exit, no module spec, the input
\* file could not be opened), sys.stdin and sys.stdout are the objects they
\* were when the call was made.
C1_StreamsRestored ==
    (before_call # <<>> /\ ~InRunner) => <<sys_stdin, sys_stdout>> = before_call

\* C1 witness: a Solution that reassigned both streams and then raised, in a
\* process whose ambient streams were not the interpreter's own; the call is over.
C1_Witness ==
    /\ pc = "unwind" /\ exc = "SolutionError"
    /\ before_call = <<"host_stdin", "host_stdout">>
    /\ sys_stdin = "host_stdin" /\ sys_stdout = "host_stdout"
    /\ executed # <<>>

\* C2: in a test run, when the Solution raised while case number idx was
\* executing, that case is reported as failed, every selected case has been
\* executed and classified and the summary is written by the time the
\* process ends.
C2_CrashIsolated ==
    (KattisTest /\ pc = "exited" /\ exc = "SolutionError") =>
        /\ Len(report) >= idx /\ report[idx] = "Fail"
        /\ failed >= 1
        /\ executed = cases
        /\ Len(report) = Len(cases)
        /\ summary

\* C3: a `test` command in which at least one case failed ends with a
\* non-zero exit status (and one that ran to its end without a failed case
\* ends with status 0).
C3_ExitStatusReflectsFailures ==
    (platform \in {"kattis", "euler"} /\ cmd = "test" /\ pc = "exited") =>
        /\ FailCount > 0 => exit_status # 0
        /\ (FailCount = 0 /\ exc = "none") => exit_status = 0

\* C4: in a test run the three counters always add up to the number of cases
\* completed so far, every step adds at most one to exactly one of them, and
\* when the run of an unfiltered table of N cases reaches its summary they
\* add up to N.
C4_Completed ==
    IF idx = 0 THEN 0
    ELSE IF pc \in {"for_case", "summary", "main_return"} \/ (pc = "exited" /\ exc = "none")
         THEN idx
         ELSE idx - 1

C4_CountersPartition ==
    KattisTest =>
        /\ Sum = C4_Completed
        /\ Sum = Len(report)
        /\ passed = Cardinality({i \in DOMAIN report : report[i] = "Pass"})
        /\ failed = FailCount
        /\ unchecked = Cardinality({i \in DOMAIN report : report[i] = "Unchecked"})
        /\ (summary /\ ~Has(test_id)) => Sum = Len(data.cases)

\* C4 witness: an unfiltered two-case table has reached its summary with one
\* case passed and one unchecked.
C4_Witness ==
    /\ KattisTest /\ summary /\ ~Has(test_id)
    /\ Len(data.cases) = 2 /\ passed = 1 /\ unchecked = 1

\* `core` is `s` without its trailing newline characters.
StrippedOf(s, core) ==
    /\ IsPrefix(core, s)
    /\ \A i \in (Len(core) + 1)..Len(s) : s[i] = NL
    /\ core = <<>> \/ core[Len(core)] # NL

EqualUpToTrailingNewlines(a, b) ==
    \E n \in 0..Len(a) : StrippedOf(a, SubSeq(a, 1, n)) /\ StrippedOf(b, SubSeq(a, 1, n))

\* The case at position i of the run, and what the Solution wrote for the
\* case classified last.
CaseAt(i) == data.cases[cases[i]]
JustClassified == KattisTest /\ pc = "for_case" /\ idx >= 1 /\ Len(report) = idx

\* C5: a case with an answer is reported Pass iff its expected text and the
\* text the Solution wrote are equal once the trailing newline characters of
\* each are dropped, and Fail otherwise.
C5_PassIffEqualStripped ==
    (JustClassified /\ Has(CaseAt(idx).answer)) =>
        /\ report[idx] \in {"Pass", "Fail"}
        /\ report[idx] = "Pass" <=>
               EqualUpToTrailingNewlines(CaseAt(idx).answer[1], output_capture)

\* C5 witness: the expected text ends in a newline, the Solution wrote the
\* same text without it, and the case passed.
C5_Witness ==
    /\ JustClassified
    /\ CaseAt(idx).answer = Some(<<"a", NL>>)
    /\ output_capture = <<"a">>
    /\ report[idx] = "Pass"

\* C6: a classified case is Unchecked iff its record has no answer key; a
\* case with an answer, the empty text included, is Pass or Fail.
C6_UncheckedIffNoAnswer ==
    KattisTest =>
        /\ \A i \in DOMAIN report : report[i] = "Unchecked" <=> ~Has(CaseAt(i).answer)
        /\ unchecked = Cardinality({i \in DOMAIN report : ~Has(CaseAt(i).answer)})

\* C6 witness: a case whose answer is the empty text has been compared (and
\* failed), and a case without an answer has been left unchecked.
C6_Witness ==
    /\ KattisTest /\ Len(report) = 2
    /\ CaseAt(1).answer = Some(<<>>) /\ report[1] = "Fail"
    /\ CaseAt(2).answer = Absent /\ report[2] = "Unchecked"

\* C7: the value run_stdin_cases returns is True iff failed = 0.
C7_SuccessIffNoFailure ==
    (KattisTest /\ summary) => (ret = "True" <=> failed = 0) /\ ret \in {"True", "False"}

\* C7 witness: a run with an unchecked case and no passed case returned True.
C7_Witness ==
    KattisTest /\ summary /\ ret = "True" /\ unchecked >= 1 /\ passed = 0

\* C8: what load_tests_toml returns has a non-empty case list; a source that
\* is unparsable, has no `cases`, an empty list or no list ends the process
\* with status 1 before any case is executed.
C8_Malformed ==
    ~data.parsed \/ ~data.has_cases \/ ~data.is_list \/ data.cases = <<>>

C8_NeverEmpty ==
    (KattisTest /\ solution_exists) =>
        /\ pc = "run_stdin_cases" => (~C8_Malformed /\ cases # <<>>)
        /\ C8_Malformed =>
              /\ pc \in {"resolve", "main", "unwind", "exited"}
              /\ executed = <<>> /\ report = <<>> /\ ~summary
              /\ pc = "exited" => exit_status = 1

\* C8 witness: the empty `cases` list has ended the process with status 1.
C8_Witness ==
    /\ KattisTest /\ solution_exists /\ data = Table(<<>>)
    /\ pc = "exited" /\ exit_status = 1 /\ executed = <<>>

\* C9: a `cases` list with an element that is no record is rejected by the
\* load: the run never starts, and no exception other than the load's own
\* exit arises.
C9_ElementsRejectedAtLoad ==
    (KattisTest /\ \E i \in DOMAIN data.cases : ~data.cases[i].isdict) =>
        /\ pc \in {"resolve", "main", "unwind", "exited"}
        /\ exc \in {"none", "sys.exit(1)"}
        /\ executed = <<>>

\* C10: with a filter index n the cases executed are, in source order, the
\* cases that have a name beginning with n written with at least two digits
\* (2 is "02", 12 is "12"), and no other; the run that reaches its summary
\* has executed all of them.
C10_Prefix(n) ==
    CASE n = 2 -> <<"0", "2">>
      [] n = 12 -> <<"1", "2">>
      [] n = 102 -> <<"1", "0", "2">>

C10_Selected ==
    {i \in DOMAIN data.cases :
        /\ Has(data.cases[i].name)
        /\ IsPrefix(C10_Prefix(test_id[1]), data.cases[i].name[1])}

C10_ExactlyPrefixed ==
    (KattisTest /\ Has(test_id) /\ \A i \in DOMAIN data.cases : data.cases[i].isdict) =>
        /\ \A k \in DOMAIN executed : executed[k] \in C10_Selected
        /\ \A k \in DOMAIN executed :
              Cardinality({i \in C10_Selected : i < executed[k]}) = k - 1
        /\ summary => Len(executed) = Cardinality(C10_Selected)

\* C10 witness: of "02e" and "2", filter index 2 has run the first only; the
\* run is at its summary.
C10_Witness ==
    /\ KattisTest /\ test_id = Some(2) /\ summary
    /\ Len(data.cases) = 2
    /\ data.cases[1].name = Some(<<"2">>)
    /\ data.cases[2].name = Some(<<"0", "2", "e">>)
    /\ executed = <<2>>

\* C19: an id given on the command line is the id the command works on,
\* whatever the working directory; with none given the id is the name of the
\* working directory when the directory above it is named like the platform,
\* and otherwise the command ends with the not-in-a-problem-directory error
\* without having resolved any id.
C19_Supplied == Has(arg_id) /\ arg_id[1] # ""
C19_InProblemDir == Len(cwd) >= 2 /\ cwd[Len(cwd) - 1] = platform

C19_ResolveId ==
    (cmd # "new" /\ pc # "resolve") =>
        /\ C19_Supplied => (problem_id = arg_id[1] /\ exc # "ValueError")
        /\ (~C19_Supplied /\ C19_InProblemDir) =>
              (problem_id = cwd[Len(cwd)] /\ exc # "ValueError")
        /\ (~C19_Supplied /\ ~C19_InProblemDir) =>
              /\ exc = "ValueError" /\ problem_id = ""
              /\ pc \in {"unwind", "exited"}
              /\ executed = <<>>
              /\ pc = "exited" => exit_status = 1

\* C19 witness: an id was given inside another problem's directory and the
\* command ran to its end on the id given.
C19_Witness ==
    /\ pc = "exited" /\ exc = "none"
    /\ arg_id = Some("hello") /\ cwd = <<"repo", "kattis", "twosum">> /\ platform = "kattis"
    /\ problem_id = "hello"

\* C11: when the Solution ended abnormally (it raised or called exit) and
\* Runner.run is over, the streams are restored and what reaches the caller
\* is the Runner's own RuntimeError condition, not whatever the Solution
\* raised.
C11_SolutionFailed == exc \in {"SolutionError", "SystemExit(0)", "SystemExit(1)"}

C11_DistinctRuntimeError ==
    (before_call # <<>> /\ executed # <<>> /\ pc \in {"unwind", "exited"}) =>
        /\ <<sys_stdin, sys_stdout>> = before_call
        /\ ~C11_SolutionFailed

\* C12: while the Solution runs in a Runner.run that was given no input
\* source, sys.stdin is an empty source of the Runner's, never the stream
\* that was the ambient sys.stdin when Runner.run was called.
C12_EmptyInputWithoutSource ==
    (pc = "exec_module" /\ stdin_source = "none") => sys_stdin # before_call[1]

\* C14: in a test run the selected cases are executed one after another in
\* source order, each once: what has been executed is always the first part
\* of the selection, the selection keeps the source order, a case's
\* execution begins with the streams not redirected (neither the Tee nor an
\* input file is installed, so the streams saved for the call are never a
\* redirection of an earlier case), between two cases the streams are those
\* from before the first call, and the Results line comes after every
\* selected case ran.
C14_Redirected == sys_stdout = "Tee" \/ sys_stdin = "stdin_file"
C14_BetweenCases == pc \in {"for_case", "Runner_run", "classify", "summary"}

C14_SequentialCases ==
    (KattisTest /\ pc \notin {"resolve", "main", "run_stdin_cases"}) =>
        /\ IsPrefix(executed, cases)
        /\ \A i, j \in 1..Len(cases) : i < j => cases[i] < cases[j]
        /\ Len(executed) \in {idx - 1, idx}
        /\ pc \in {"Runner_run", "Runner_try", "exec_module"} => Len(executed) = idx - 1
        /\ pc \in {"classify", "summary"} => Len(executed) = idx
        /\ C14_BetweenCases => ~C14_Redirected
        /\ (C14_BetweenCases /\ before_call # <<>>) => <<sys_stdin, sys_stdout>> = before_call
        /\ InRunner => (original_stdout # "Tee" /\ original_stdin # "stdin_file")
        /\ summary => executed = cases

\* C14 witness: the second of two selected cases is about to call
\* Runner.run, after a first case whose Solution had reassigned the streams.
C14_Witness ==
    /\ KattisTest /\ pc = "Runner_run" /\ idx = 2
    /\ cases = <<1, 2>> /\ executed = <<1>>
    /\ before_call = <<"host_stdin", "host_stdout">>
    /\ ~C14_Redirected

\* C13: every Runner.run executes the Solution in a fresh context: a
\* deterministic Solution that reads no input writes, in every invocation of
\* the process, the text it writes when it is run on its own, whatever it
\* stored in its globals or in a module it imports during earlier invocations.
C13_FreshContext ==
    (solution_src \in Programs \ {"user"} /\ pc = "Runner_finally" /\ exc = "none") =>
        output_capture = FreshOutput(solution_src)

\* C15: `new` never overwrites and is idempotent: no step of a `new`
\* command changes a solution.py, a tests.toml or an answer.txt that exists,
\* and once `new` has been run, running it again changes no file at all.
C15_NeverOverwrites ==
    [][cmd = "new" =>
          /\ solution_exists => solution_src' = solution_src
          /\ data.exists => data' = data
          /\ Has(answer_file) => answer_file' = answer_file
          /\ runs >= 1 => files' = files]_vars

\* C15 witness: the second `new` of a Kattis problem has ended; the user's
\* solution.py is still there, next to the tests.toml the first run made from
\* the template.
C15_Witness ==
    /\ platform = "kattis" /\ cmd = "new" /\ pc = "exited" /\ runs = 1
    /\ solution_src = "user"
    /\ data = tomllib_loads(KATTIS_TESTS_TOML_TEMPLATE)
    /\ writes = {}

\* C20: a tests.toml generated from sample fixtures loads back as the
\* fixtures: one case per fixture in sorted order, with the fixture's name,
\* its input text as stdin and its answer text as answer (no answer key
\* without an answer file), whatever the texts are.
FixtureCases(fx) ==
    [k \in 1..Len(fx) |-> Case(Some(fx[k].name), Some(fx[k].stdin), fx[k].answer)]

C20_RoundTrip ==
    ("tests.toml" \in writes /\ samples # <<>>) => data = Table(FixtureCases(samples))

\* C16: a failed precondition aborts the command before it has any effect.
\* Without solution.py, once `run`, `test` or `submit` has started, Runner.run
\* has not been called, no file has been written, no request has been sent,
\* and the process ends with a non-zero status.  Without .kattisrc, the
\* Kattis `submit` has sent no request and ends with a non-zero status.
C16_Started == pc \notin {"resolve", "main"}
C16_Aborted == pc \in {"unwind", "exited"} /\ exc # "none" /\ (pc = "exited" => exit_status # 0)

C16_PreconditionAborts ==
    /\ (cmd \in {"run", "test", "submit"} /\ ~solution_exists /\ C16_Started) =>
          /\ before_call = <<>> /\ executed = <<>>
          /\ writes = {} /\ sent = <<>>
          /\ C16_Aborted
    /\ (platform = "kattis" /\ cmd = "submit" /\ ~kattisrc /\ C16_Started) =>
          /\ sent = <<>>
          /\ C16_Aborted

\* C16 witness: `kattis test` without solution.py and without tests.toml,
\* where samples could have been fetched and written, has exited with 1.
C16_Witness ==
    /\ platform = "kattis" /\ cmd = "test" /\ ~solution_exists
    /\ ~data.exists /\ samples # <<>>
    /\ pc = "exited" /\ exit_status = 1
    /\ sent = <<>> /\ writes = {}

\* C17: in `submit` the upload is sent only right after a login that was
\* answered with a success status; a login or an upload answered with a
\* non-success status is the last request of the process, which ends with a
\* non-zero status.
C17_Success(st) == st \in 200..299
C17_Submit(k) == sent[k].req \in {"login", "submit"}

C17_UploadOnlyAfterLogin ==
    \A k \in 1..Len(sent) :
        /\ sent[k].req = "submit" =>
              /\ k > 1
              /\ sent[k - 1].req = "login"
              /\ C17_Success(sent[k - 1].status)
        /\ (C17_Submit(k) /\ ~C17_Success(sent[k].status)) =>
              /\ k = Len(sent)
              /\ pc \in {"unwind", "exited"} /\ exc = "sys.exit(1)"
              /\ pc = "exited" => exit_status # 0

\* C17 witness: the login was accepted, the upload was answered with 500 and
\* the process has exited with 1.
C17_Witness ==
    /\ pc = "exited" /\ exit_status = 1
    /\ Len(sent) = 2
    /\ sent[1].req = "login" /\ sent[1].status = 200
    /\ sent[2].req = "submit" /\ sent[2].status = 500

\* C18: when the upload was answered with 200 and the response text holds no
\* "Submission ID: <digits>", `submit` prints "Submitted!" without an id, no
\* exception is raised and the process ends with status 0.
C18_NoId(body) ==
    \A k \in 1..Len(body) :
        body[k] = "Submission ID: " => (k = Len(body) \/ body[k + 1] # "7")

C18_UnknownIdIsSuccess ==
    (sent # <<>> /\ sent[Len(sent)].req = "submit" /\ sent[Len(sent)].status = 200
        /\ C18_NoId(sent[Len(sent)].body)) =>
        /\ report = <<"Submitted!">>
        /\ exc = "none" /\ pc \in {"main_return", "exited"}
        /\ pc = "exited" => exit_status = 0

\* C18 witness: the response held the words "Submission ID: " followed by
\* something that is no number; the process has exited with 0.
C18_Witness ==
    /\ pc = "exited" /\ exit_status = 0
    /\ Len(sent) = 2 /\ sent[2].status = 200
    /\ sent[2].body = <<"Submission ID: ", "x">>
    /\ report = <<"Submitted!">>

\* C21: in Project Euler `test`, when answer.txt is absent, empty (blank)
\* or begins with the comment marker, and the Solution ran to its end, no
\* comparison is made, nothing is reported as a failure and the command
\* succeeds: the process ends with status 0.
C21_NoExpected ==
    \/ ~Has(answer_file)
    \/ strip(answer_file[1]) = <<>>
    \/ startswith(strip(answer_file[1]), <<Hash>>)

C21_UncheckedIsNoFailure ==
    (platform = "euler" /\ cmd = "test" /\ C21_NoExpected
        /\ executed # <<>> /\ exc \notin {"SolutionError", "SystemExit(0)", "SystemExit(1)"}
        /\ pc \in {"unwind", "exited"}) =>
        /\ report = <<>>
        /\ exc = "none"
        /\ pc = "exited" => exit_status = 0

\* C22: when Runner.run has returned, the text it returned is what the
\* Solution wrote to standard output during this call, in order, without its
\* trailing newlines, and nothing else (no text of an earlier call), and the
\* terminal has received the same text in the same order during the call.
C22_Returned ==
    /\ executed # <<>> /\ exc = "none"
    /\ \/ pc \in {"classify", "euler_check"}
       \/ pc = "main_return" /\ (cmd = "run" \/ (cmd = "submit" /\ platform = "euler"))

C22_ReturnsWhatWasWritten ==
    /\ pc = "Runner_finally" => (output_capture = solution_wrote /\ terminal = solution_wrote)
    /\ C22_Returned =>
          /\ actual = rstrip_nl(solution_wrote)
          /\ terminal = solution_wrote

\* C22 witness: the second case of a test run has returned "aa", after a
\* first case that wrote another text.
C22_Witness ==
    /\ KattisTest /\ pc = "classify" /\ idx = 2
    /\ solution_src = "count_imported"
    /\ solution_wrote = <<"a", "a", NL>>
    /\ actual = <<"a", "a">>
    /\ terminal = <<"a", "a", NL>>

\* C23: in the cmd_test of kattis.py, once a Solution has been executed and
\* the command is over, also by an exception of the Solution, sys.stdin is
\* the object it was before the command and sys.stdout is not the Tee.
C23_LegacyStreamsReset ==
    (platform = "kattis.py" /\ executed # <<>> /\ pc \in {"unwind", "exited"}) =>
        /\ sys_stdin = original_stdin
        /\ sys_stdout # "Tee"

C25_NothingSelected ==
    /\ KattisTest /\ Has(test_id)
    /\ data.parsed /\ data.is_list /\ data.cases # <<>>
    /\ \A i \in DOMAIN data.cases : data.cases[i].isdict
    /\ C10_Selected = {}

C25_EmptySelectionSucceeds ==
    (C25_NothingSelected /\ pc \notin {"resolve", "main", "run_stdin_cases"}) =>
        /\ executed = <<>> /\ before_call = <<>>
        /\ passed = 0 /\ failed = 0 /\ unchecked = 0
        /\ report = <<>> /\ exc = "none"
        /\ pc \in {"for_case", "summary", "main_return", "exited"}
        /\ pc \in {"main_return", "exited"} => (summary /\ ret = "True")
        /\ pc = "exited" => exit_status = 0

\* C25 witness: filter index 12 on a table of the cases "2" and "02e"; the
\* process has ended with status 0 after its Results line.
C25_Witness ==
    /\ KattisTest /\ test_id = Some(12)
    /\ Len(data.cases) = 2
    /\ data.cases[1].name = Some(<<"2">>)
    /\ data.cases[2].name = Some(<<"0", "2", "e">>)
    /\ pc = "exited" /\ exit_status = 0 /\ summary
    /\ executed = <<>>

====
